---- MODULE Spec2Model ----
(***************************************************************************)
(* Model of huff_tests/src/report.rs: print_test_report, the renderer of   *)
(* a collection of test results in one of four report kinds (Table, List,  *)
(* HuffTest, JSON), followed by an aggregate summary line.                 *)
(*                                                                         *)
(* Conventions of the model                                                *)
(*  - A Rust String holding hex digits is a sequence of one-character      *)
(*    strings: "abc" is <<"a", "b", "c">>.                                 *)
(*  - Decoded bytes are integers 0..255; a decoded text is the sequence of *)
(*    its code points ("ok" is <<111, 107>>).                              *)
(*  - Option<String> is a record [some |-> BOOLEAN, val |-> String].        *)
(*  - A Result is a record [ok |-> BOOLEAN, val |-> ...]; .unwrap() on a   *)
(*    Result that is not ok panics: the render stops where it is, what was *)
(*    printed so far stays printed, and pc becomes "panicked".             *)
(*  - Colours (yansi::Paint) and the elapsed time decorate the text and    *)
(*    are not part of a line's content.                                    *)
(***************************************************************************)
EXTENDS Integers, Sequences, FiniteSets, TLC

----------------------------------------------------------------------------
(* Strings *)

\* Option<String>
None == [some |-> FALSE, val |-> <<>>]
Some(s) == [some |-> TRUE, val |-> s]

\* str::starts_with
StartsWith(s, prefix) ==
    /\ Len(s) >= Len(prefix)
    /\ SubSeq(s, 1, Len(prefix)) = prefix

\* s[n..] : the string after its first n characters
DropFirst(s, n) == SubSeq(s, n + 1, Len(s))

\* str::trim_start_matches("0")
RECURSIVE TrimStartZeros(_)
TrimStartZeros(s) ==
    IF s # <<>> /\ Head(s) = "0" THEN TrimStartZeros(Tail(s)) ELSE s

\* The selectors the HuffTest arm looks for, as written in the source.
ErrorSelector == <<"0", "8", "c", "3", "7", "9", "a", "0">>
LogSelector == <<"3", "2", "d", "5", "a", "b", "9", "6">>

\* The literal message printed for return data without the Error selector.
TestFailed == <<116, 101, 115, 116, 32, 102, 97, 105, 108, 101, 100>>

----------------------------------------------------------------------------
(* hex::decode *)

LowerHex == <<"0", "1", "2", "3", "4", "5", "6", "7", "8", "9",
              "a", "b", "c", "d", "e", "f">>
UpperHex == <<"0", "1", "2", "3", "4", "5", "6", "7", "8", "9",
              "A", "B", "C", "D", "E", "F">>

\* The value of one hex digit, in either case; -1 for any other character.
HexVal(c) ==
    IF \E i \in 1..16 : LowerHex[i] = c
    THEN (CHOOSE i \in 1..16 : LowerHex[i] = c) - 1
    ELSE IF \E i \in 1..16 : UpperHex[i] = c
         THEN (CHOOSE i \in 1..16 : UpperHex[i] = c) - 1
         ELSE -1

\* hex::decode: Err on an odd number of digits or on a character that is
\* no hex digit; otherwise one byte per pair of digits.
HexDecode(s) ==
    IF Len(s) % 2 = 1 \/ (\E i \in 1..Len(s) : HexVal(s[i]) = -1)
    THEN [ok |-> FALSE, val |-> <<>>]
    ELSE [ok |-> TRUE,
          val |-> [i \in 1..(Len(s) \div 2) |->
                       16 * HexVal(s[2 * i - 1]) + HexVal(s[2 * i])]]

----------------------------------------------------------------------------
(* ethers_core::abi::decode(&[ParamType::String], data) *)

WordBytes == 32

\* as_usize(peek_32_bytes(data, offset)): the 32-byte big-endian word at a
\* 0-based byte offset. Err when the data is too short for the word or the
\* word does not fit a u32 (any of its 28 leading bytes is not 0).
PeekUsize(data, offset) ==
    IF offset + WordBytes > Len(data)
    THEN [ok |-> FALSE, val |-> 0]
    ELSE IF \E i \in 1..(WordBytes - 4) : data[offset + i] # 0
         THEN [ok |-> FALSE, val |-> 0]
         ELSE [ok |-> TRUE,
               val |-> ((data[offset + WordBytes - 3] * 256
                         + data[offset + WordBytes - 2]) * 256
                        + data[offset + WordBytes - 1]) * 256
                       + data[offset + WordBytes]]

\* String::from_utf8_lossy on the bytes of the model's alphabet: an ASCII
\* byte is its own code point, a byte that can start no UTF-8 sequence
\* becomes U+FFFD.
Utf8Lossy(bytes) ==
    [i \in 1..Len(bytes) |-> IF bytes[i] < 128 THEN bytes[i] ELSE 65533]

\* decode(&[ParamType::String], data): Err on empty data; the head word is
\* the offset of the string, the word at that offset its length, the bytes
\* after it the text. No padding is required by the non-validating decoder.
AbiDecodeString(data) ==
    IF data = <<>> THEN [ok |-> FALSE, val |-> <<>>]
    ELSE LET off == PeekUsize(data, 0) IN
         IF ~off.ok THEN [ok |-> FALSE, val |-> <<>>]
         ELSE LET len == PeekUsize(data, off.val) IN
              IF ~len.ok \/ off.val + WordBytes + len.val > Len(data)
              THEN [ok |-> FALSE, val |-> <<>>]
              ELSE [ok |-> TRUE,
                    val |-> Utf8Lossy(SubSeq(data, off.val + WordBytes + 1,
                                             off.val + WordBytes + len.val))]

----------------------------------------------------------------------------
(* The bytes32 log string *)

\* let mut bytes = [0u8; 32]; the first 32 bytes of message copied over it
Bytes32Of(message) ==
    [i \in 1..WordBytes |-> IF i <= Len(message) THEN message[i] ELSE 0]

\* ethers_core::utils::parse_bytes32_string: the bytes before the first 0
\* byte, as UTF-8; Err when they are not valid UTF-8 (on the model's
\* alphabet: when one of them is not ASCII).
ParseBytes32String(bytes) ==
    LET zeros == {i \in 1..WordBytes : bytes[i] = 0}
        length == IF zeros = {} THEN WordBytes
                  ELSE (CHOOSE i \in zeros : \A j \in zeros : i <= j) - 1
        text == SubSeq(bytes, 1, length)
    IN IF \E i \in 1..length : text[i] >= 128
       THEN [ok |-> FALSE, val |-> <<>>]
       ELSE [ok |-> TRUE, val |-> text]

\* huff_utils::format_even_bytes: one "0" in front of a string of odd length
format_even_bytes(hex) ==
    IF Len(hex) % 2 = 1 THEN <<"0">> \o hex ELSE hex

----------------------------------------------------------------------------
(* The types of the prelude, as print_test_report uses them *)

ReportKind == {"Table", "List", "HuffTest", "JSON"}
TestStatus == {"Success", "Revert", "Failure"}

\* The tree connectors: Corner is the terminal one ("╰─" in the source),
\* Tee the continuing one ("├─"), Pipe the vertical bar ("│ ").
Corner == "corner"
Tee == "tee"
Pipe == "pipe"

----------------------------------------------------------------------------
(* The counts taken before the report is generated *)

\* results.iter().filter(status is Success).count()
RECURSIVE CountSuccess(_)
CountSuccess(rs) ==
    IF rs = <<>> THEN 0
    ELSE (IF Head(rs).status = "Success" THEN 1 ELSE 0) + CountSuccess(Tail(rs))

\* Mutant of NPassed: a revert counted as a pass.
RECURSIVE NPassedCountsRevert(_)
NPassedCountsRevert(rs) ==
    IF rs = <<>> THEN 0
    ELSE (IF Head(rs).status # "Failure" THEN 1 ELSE 0)
         + NPassedCountsRevert(Tail(rs))

NPassed(rs) == CountSuccess(rs)

\* usize::saturating_sub(1)
SaturatingSub1(n) == IF n = 0 THEN 0 ELSE n - 1

----------------------------------------------------------------------------
(* One record in each report kind *)

\* The header line of the two narrative kinds.
HeaderLine(r) ==
    [kind |-> "header", status |-> r.status, name |-> r.name, gas |-> r.gas]

\* result.return_data.unwrap_or_else(|| String::from("None"))
ReturnDataCell(r) ==
    IF r.return_data.some THEN r.return_data.val ELSE <<"N", "o", "n", "e">>

\* The table row of a record: Name, Return Data, Gas, Status.
TableRow(r) ==
    [name |-> r.name, return_data |-> ReturnDataCell(r), gas |-> r.gas,
     status |-> r.status]

\* The connector of the return-data line in both narrative kinds.
ReturnConn(num_logs) == IF num_logs = 0 THEN Corner ELSE Tee

\* The connector of log i (0-based, as enumerate() counts) in the List arm
\* and on the selector path of the HuffTest arm.
LogConn(i, num_logs) == IF i = num_logs THEN Corner ELSE Tee

\* The connector of log i on the raw-hex path of the HuffTest arm.
RawLogConn(i, num_logs) == IF i = num_logs THEN Corner ELSE Pipe

\* Mutant of ListLogLine: the log decoded to even-length hex as in HuffTest.
ListLogLineNormalised(r, i, num_logs) ==
    [kind |-> "log", conn |-> LogConn(i, num_logs), pc |-> r.logs[i + 1][1],
     hex |-> format_even_bytes(TrimStartZeros(r.logs[i + 1][2]))]

\* "[PC: {pc}]: 0x{log}" under its connector, for log i (0-based).
ListLogLine(r, i, num_logs) ==
    [kind |-> "log", conn |-> LogConn(i, num_logs), pc |-> r.logs[i + 1][1],
     hex |-> r.logs[i + 1][2]]

\* The lines the List arm prints for one record.
ListLines(r) ==
    LET num_logs == SaturatingSub1(Len(r.logs))
        ret == IF r.return_data.some
               THEN << [kind |-> "heading", conn |-> Tee, title |-> "RETURN DATA"],
                       [kind |-> "return_data", conn |-> ReturnConn(num_logs),
                        hex |-> r.return_data.val] >>
               ELSE <<>>
        logs == IF num_logs > 0
                THEN << [kind |-> "heading", conn |-> Tee, title |-> "LOGS"] >>
                     \o [k \in 1..Len(r.logs) |-> ListLogLine(r, k - 1, num_logs)]
                ELSE <<>>
    IN <<HeaderLine(r)>> \o ret \o logs

\* Mutant of IsErrorData: the selector looked for in the lowercased data.
ToLower(s) ==
    [i \in 1..Len(s) |->
        IF \E j \in 1..16 : UpperHex[j] = s[i]
        THEN LowerHex[CHOOSE j \in 1..16 : UpperHex[j] = s[i]]
        ELSE s[i]]
IsErrorDataAnyCase(return_data) == StartsWith(ToLower(return_data), ErrorSelector)

\* return_data.starts_with("08c379a0")
IsErrorData(return_data) == StartsWith(return_data, ErrorSelector)

\* The message of the return data: the decoded Error(string), or the literal.
\* Not ok when one of the unwrap() calls panics.
ReturnMessage(return_data) ==
    IF IsErrorData(return_data)
    THEN LET error_string == HexDecode(return_data) IN
         IF ~error_string.ok THEN [ok |-> FALSE, val |-> <<>>]
         ELSE AbiDecodeString(DropFirst(error_string.val, 4))
    ELSE [ok |-> TRUE, val |-> TestFailed]

\* Mutant of RawLogBytes: no "00" for an empty trimmed string.
RawLogBytesNoZero(trimmed) == trimmed

\* let bytes = if trimmed == "" { "00" } else { trimmed }
RawLogBytes(trimmed) == IF trimmed = <<>> THEN <<"0", "0">> ELSE trimmed

\* The line of log i (0-based) in the HuffTest arm. Not ok when an unwrap()
\* panics.
HuffLogLine(log, i, num_logs) ==
    IF StartsWith(log, LogSelector)
    THEN LET message == HexDecode(DropFirst(log, 8)) IN
         IF ~message.ok THEN [ok |-> FALSE, val |-> <<>>]
         ELSE LET parsed == ParseBytes32String(Bytes32Of(message.val)) IN
              IF ~parsed.ok THEN [ok |-> FALSE, val |-> <<>>]
              ELSE [ok |-> TRUE,
                    val |-> << [kind |-> "log_string",
                                conn |-> LogConn(i, num_logs),
                                text |-> parsed.val] >>]
    ELSE [ok |-> TRUE,
          val |-> << [kind |-> "log_hex", conn |-> RawLogConn(i, num_logs),
                      hex |-> format_even_bytes(RawLogBytes(TrimStartZeros(log)))] >>]

\* The lines of logs i.. (0-based) of the HuffTest arm, up to the first panic.
RECURSIVE HuffLogLines(_, _, _)
HuffLogLines(logs, i, num_logs) ==
    IF i >= Len(logs) THEN [ok |-> TRUE, val |-> <<>>]
    ELSE LET line == HuffLogLine(logs[i + 1][2], i, num_logs) IN
         IF ~line.ok THEN [ok |-> FALSE, val |-> <<>>]
         ELSE LET rest == HuffLogLines(logs, i + 1, num_logs) IN
              [ok |-> rest.ok, val |-> line.val \o rest.val]

\* The lines the HuffTest arm prints for one record, and whether it got to
\* the end of the record without a panic.
HuffTestLines(r) ==
    LET num_logs == SaturatingSub1(Len(r.logs))
        message == IF r.return_data.some THEN ReturnMessage(r.return_data.val)
                   ELSE [ok |-> TRUE, val |-> <<>>]
        ret == IF r.return_data.some /\ message.ok
               THEN << [kind |-> "message", conn |-> ReturnConn(num_logs),
                        text |-> message.val] >>
               ELSE <<>>
        logs == IF message.ok /\ num_logs > 0
                THEN HuffLogLines(r.logs, 0, num_logs)
                ELSE [ok |-> TRUE, val |-> <<>>]
    IN [ok |-> message.ok /\ logs.ok,
        val |-> <<HeaderLine(r)>> \o ret \o logs.val]

\* n_passed * 100 / n_results, for n_results > 0
Percent(passed, total) == (passed * 100) \div total

----------------------------------------------------------------------------
(* The inputs: the results handed to print_test_report *)

\* Bounds of the model.
MaxResults == 4
MaxLogs == 3

\* All sequences over S of length at most n.
RECURSIVE SeqsUpTo(_, _)
SeqsUpTo(S, n) ==
    IF n = 0 THEN {<<>>}
    ELSE LET shorter == SeqsUpTo(S, n - 1) IN
         shorter \cup {Append(q, x) : q \in {t \in shorter : Len(t) = n - 1}, x \in S}

\* hex::encode, as the test runner writes return data and logs.
RECURSIVE HexEncode(_)
HexEncode(bytes) ==
    IF bytes = <<>> THEN <<>>
    ELSE <<LowerHex[(Head(bytes) \div 16) + 1], LowerHex[(Head(bytes) % 16) + 1]>>
         \o HexEncode(Tail(bytes))

\* The ABI word of a number below 256, and a text padded to whole words.
AbiWord(n) == [i \in 1..WordBytes |-> IF i = WordBytes THEN n ELSE 0]
AbiPadded(text) ==
    text \o [i \in 1..((WordBytes - (Len(text) % WordBytes)) % WordBytes) |-> 0]

\* The tail of a revert with Error(string): offset, length, padded text.
ErrorTail(text) ==
    HexEncode(AbiWord(WordBytes) \o AbiWord(Len(text)) \o AbiPadded(text))

Oops == <<111, 111, 112, 115>>
Ok == <<111, 107>>

\* Return data: a revert with Error("oops"); the same with the selector in
\* upper case; the selector followed by an odd number of hex digits; the
\* selector followed by an offset word alone; data with another selector.
RevertOops == ErrorSelector \o ErrorTail(Oops)
RevertUpper == <<"0", "8", "C", "3", "7", "9", "A", "0">> \o ErrorTail(Oops)
RevertOddHex == ErrorSelector \o <<"f">>
RevertTruncated == ErrorSelector \o HexEncode(AbiWord(WordBytes))
PlainData == <<"0", "0", "a", "1">>

ReturnPool ==
    {None, Some(RevertOops), Some(RevertUpper), Some(RevertOddHex),
     Some(RevertTruncated), Some(PlainData)}

\* Logs: the bytes32 string "ok" under its selector; the selector followed
\* by an odd number of hex digits; raw logs of odd length, of zeros only,
\* empty, and of even length under leading zeros.
LogOk == LogSelector \o HexEncode(Ok)
LogOddHex == LogSelector \o <<"f">>
LogPool ==
    {<<10, LogOk>>, <<11, LogOddHex>>, <<12, <<"a", "b", "c">> >>,
     <<13, <<"0", "0", "0", "0">> >>, <<14, <<>> >>,
     <<15, <<"0", "0", "a", "b">> >>}

\* Records without logs, of every status.
PlainRecords ==
    [name : {"testA"}, status : TestStatus, gas : {21000},
     return_data : {None, Some(PlainData)}, logs : {<<>>}]

\* Records of every return data and every sequence of logs.
PayloadRecords ==
    [name : {"testB"}, status : {"Revert"}, gas : {5000},
     return_data : ReturnPool, logs : SeqsUpTo(LogPool, MaxLogs)]

\* The record that may follow a record with payloads.
Followers ==
    [name : {"testA"}, status : {"Success"}, gas : {21000},
     return_data : {None}, logs : {<<>>}]

\* The collections rendered: up to MaxResults records without logs, and one
\* record with payloads, alone or followed by another record.
Inputs ==
    SeqsUpTo(PlainRecords, MaxResults)
    \cup {<<r>> : r \in PayloadRecords}
    \cup {<<r, q>> : r \in PayloadRecords, q \in Followers}

----------------------------------------------------------------------------
(* print_test_report as a state machine *)

VARIABLES
    results,      \* the Vec<TestResult> passed in
    report_kind,  \* the ReportKind passed in
    pc,           \* where the call is: start, loop, print_table, json,
                  \* summary, done, panicked
    n_passed,     \* the local n_passed
    n_results,    \* the local n_results
    next,         \* the 1-based position of the next record of the for loop
    table,        \* the rows added to the comfy_table Table
    out,          \* the lines printed on stdout, in order
    err           \* the lines printed on stderr, in order

vars == <<results, report_kind, pc, n_passed, n_results, next, table, out, err>>

Init ==
    /\ results \in Inputs
    /\ report_kind \in ReportKind
    /\ pc = "start"
    /\ n_passed = 0
    /\ n_results = 0
    /\ next = 1
    /\ table = <<>>
    /\ out = <<>>
    /\ err = <<>>

\* Where the call goes once the for loop stands before record i.
AfterRecord(i) ==
    IF i <= Len(results) THEN "loop"
    ELSE IF report_kind = "Table" THEN "print_table" ELSE "summary"

\* Lines 19-29: the counts, then the dispatch on report_kind.
Count ==
    /\ pc = "start"
    /\ n_passed' = NPassed(results)
    /\ n_results' = Len(results)
    /\ pc' = IF report_kind = "JSON" THEN "json" ELSE AfterRecord(1)
    /\ UNCHANGED <<results, report_kind, next, table, out, err>>

\* Lines 42-49: one row of the table.
TableAddRow ==
    /\ pc = "loop"
    /\ report_kind = "Table"
    /\ table' = Append(table, TableRow(results[next]))
    /\ next' = next + 1
    /\ pc' = AfterRecord(next + 1)
    /\ UNCHANGED <<results, report_kind, n_passed, n_results, out, err>>

\* Line 51: the table printed.
TablePrint ==
    /\ pc = "print_table"
    /\ out' = Append(out, [kind |-> "table", rows |-> table])
    /\ pc' = "summary"
    /\ UNCHANGED <<results, report_kind, n_passed, n_results, next, table, err>>

\* Lines 54-83: one record of the List arm.
ListRecord ==
    /\ pc = "loop"
    /\ report_kind = "List"
    /\ out' = out \o ListLines(results[next])
    /\ next' = next + 1
    /\ pc' = AfterRecord(next + 1)
    /\ UNCHANGED <<results, report_kind, n_passed, n_results, table, err>>

\* Lines 86-135: one record of the HuffTest arm, or its lines up to a panic.
HuffTestRecord ==
    /\ pc = "loop"
    /\ report_kind = "HuffTest"
    /\ LET rendered == HuffTestLines(results[next]) IN
       /\ out' = out \o rendered.val
       /\ next' = IF rendered.ok THEN next + 1 ELSE next
       /\ pc' = IF rendered.ok THEN AfterRecord(next + 1) ELSE "panicked"
    /\ UNCHANGED <<results, report_kind, n_passed, n_results, table, err>>

\* Lines 137-144: the JSON arm. Whether serde_json serialises the results
\* is decided outside this file; either way the call returns here.
JsonDump ==
    /\ pc = "json"
    /\ \E serialised \in BOOLEAN :
          IF serialised
          THEN /\ out' = Append(out, [kind |-> "json", doc |-> results])
               /\ err' = err
          ELSE /\ out' = out
               /\ err' = Append(err, "Error serializing test results into JSON.")
    /\ pc' = "done"
    /\ UNCHANGED <<results, report_kind, n_passed, n_results, next, table>>

\* Lines 146-152: the summary line. Its arguments are evaluated before
\* anything is printed, and n_passed * 100 / n_results panics when
\* n_results is 0.
Summary ==
    /\ pc = "summary"
    /\ IF n_results = 0
       THEN /\ pc' = "panicked"
            /\ out' = out
       ELSE /\ pc' = "done"
            /\ out' = Append(out, [kind |-> "summary", passed |-> n_passed,
                                   failed |-> n_results - n_passed,
                                   percent |-> Percent(n_passed, n_results)])
    /\ UNCHANGED <<results, report_kind, n_passed, n_results, next, table, err>>

Next ==
    \/ Count
    \/ TableAddRow
    \/ TablePrint
    \/ ListRecord
    \/ HuffTestRecord
    \/ JsonDump
    \/ Summary

Spec == Init /\ [][Next]_vars

----------------------------------------------------------------------------
(* Reading the output *)

Narrative == report_kind \in {"List", "HuffTest"}
Finished == pc \in {"done", "panicked"}

SummaryPositions == {i \in DOMAIN out : out[i].kind = "summary"}
HeaderPositions == {i \in DOMAIN out : out[i].kind = "header"}
NumHeaders == Cardinality(HeaderPositions)

\* The position in out of the header of record k, and of its last line.
HeaderAt(k) ==
    CHOOSE i \in HeaderPositions :
        Cardinality({j \in HeaderPositions : j < i}) = k - 1
EndOf(k) ==
    LET later == {i \in DOMAIN out :
                     i > HeaderAt(k) /\ out[i].kind \in {"header", "summary"}}
    IN IF later = {} THEN Len(out)
       ELSE (CHOOSE i \in later : \A j \in later : i <= j) - 1

\* The lines printed under the header of record k.
SubItems(k) == SubSeq(out, HeaderAt(k) + 1, EndOf(k))

\* A string without its leading "0" characters.
Stripped(s) ==
    LET nonzero == {i \in DOMAIN s : s[i] # "0"} IN
    IF nonzero = {} THEN <<>>
    ELSE SubSeq(s, CHOOSE i \in nonzero : \A j \in nonzero : i <= j, Len(s))

\* The floor of passed * 100 / total, for total > 0.
IsFloorPercent(p, passed, total) ==
    p * total <= passed * 100 /\ passed * 100 < (p + 1) * total

----------------------------------------------------------------------------
(* The claims *)

\* C1: a report of no records in Table, List or HuffTest kind completes
\* without a panic.
C1_EmptyReportCompletes ==
    (results = <<>> /\ report_kind \in {"Table", "List", "HuffTest"})
        => pc # "panicked"

\* C2: in HuffTest kind a rendered record with n >= 1 logs has exactly n
\* decoded log lines, in order, after the return-data line if any; the one
\* log "ok" of a record is printed as "ok".
C2_EveryLogDecoded ==
    report_kind = "HuffTest" =>
        \A k \in 1..(next - 1) :
            LET r == results[k]
                n == Len(r.logs)
                m == IF r.return_data.some THEN 1 ELSE 0
                items == SubItems(k)
            IN n >= 1 =>
                /\ Len(items) = m + n
                /\ m = 1 => items[1].kind = "message"
                /\ \A j \in 1..n :
                      /\ items[m + j].kind \in {"log_string", "log_hex"}
                      /\ r.logs[j][2] = LogOk =>
                            /\ items[m + j].kind = "log_string"
                            /\ items[m + j].text = Ok

\* C3: in List kind a record with n >= 1 logs has a LOGS heading followed
\* by one line per log, in order, the terminal connector on the last and
\* the continuing connector on the others.
C3_ListLogsPrinted ==
    report_kind = "List" =>
        \A k \in 1..NumHeaders :
            LET r == results[k]
                n == Len(r.logs)
                m == IF r.return_data.some THEN 2 ELSE 0
                items == SubItems(k)
            IN n >= 1 =>
                /\ Len(items) = m + 1 + n
                /\ items[m + 1] = [kind |-> "heading", conn |-> Tee, title |-> "LOGS"]
                /\ \A j \in 1..n :
                      items[m + 1 + j] =
                          [kind |-> "log", conn |-> IF j = n THEN Corner ELSE Tee,
                           pc |-> r.logs[j][1], hex |-> r.logs[j][2]]

\* C4: a finished JSON render has printed no summary line; a finished
\* render of any other kind has printed exactly one, as its last line.
C4_SummaryOnceAtEnd ==
    Finished =>
        IF report_kind = "JSON" THEN SummaryPositions = {}
        ELSE SummaryPositions = {Len(out)} /\ out # <<>>

\* C5: in the narrative kinds a finished render has printed the header of
\* every record, whatever the return data and logs of the records before.
C5_DecodeErrorsLocal ==
    (Narrative /\ Finished) => NumHeaders = Len(results)

\* C6: a summary line reports the number of Success records as passed, the
\* rest as failed, and the floor of passed * 100 / total as the percentage,
\* total being the number of records passed in.
C6_SummaryCounts ==
    \A i \in SummaryPositions :
        LET passed == Cardinality({k \in DOMAIN results :
                                      results[k].status = "Success"})
            total == Len(results)
        IN /\ total > 0
           /\ out[i].passed = passed
           /\ out[i].failed = total - passed
           /\ IsFloorPercent(out[i].percent, passed, total)

C6_Witness ==
    /\ pc = "done"
    /\ \E k \in DOMAIN results : results[k].status = "Revert"
    /\ \E k \in DOMAIN results : results[k].status = "Failure"
    /\ \E i \in SummaryPositions :
          out[i].passed = 1 /\ out[i].failed = 2 /\ out[i].percent = 33

\* C7: in HuffTest kind the line of a log without the log selector shows
\* the log stripped of its leading zeros: "00" when nothing is left, one "0"
\* in front when an odd number of digits is left, unchanged otherwise; so
\* never empty and always of even length.
C7_RawLogHexEven ==
    report_kind = "HuffTest" =>
        \A k \in 1..NumHeaders :
            LET r == results[k]
                m == IF r.return_data.some THEN 1 ELSE 0
                items == SubItems(k)
            IN \A j \in 1..(Len(items) - m) :
                  LET log == r.logs[j][2]
                      line == items[m + j]
                  IN ~StartsWith(log, LogSelector) =>
                        /\ line.kind = "log_hex"
                        /\ line.hex # <<>>
                        /\ Len(line.hex) % 2 = 0
                        /\ line.hex = IF Stripped(log) = <<>> THEN <<"0", "0">>
                                      ELSE IF Len(Stripped(log)) % 2 = 1
                                           THEN <<"0">> \o Stripped(log)
                                           ELSE Stripped(log)

C7_Witness ==
    /\ report_kind = "HuffTest"
    /\ \E i \in DOMAIN out :
          out[i].kind = "log_hex" /\ out[i].hex = <<"0", "a", "b", "c">>
    /\ \E i \in DOMAIN out :
          out[i].kind = "log_hex" /\ out[i].hex = <<"0", "0">>
    /\ \E k \in DOMAIN results : \E j \in DOMAIN results[k].logs :
          results[k].logs[j][2] = <<>>

\* The texts whose Error(string) encoding is among the return data.
ErrorTexts == {Oops}

\* C8 as claimed: in HuffTest kind the message of a rendered record with
\* return data is the decoded Error(string) when the lowercased return data
\* starts with 08c379a0, and "test failed" otherwise.
C8_SelectorAnyCase ==
    report_kind = "HuffTest" =>
        \A k \in 1..(next - 1) :
            LET r == results[k] IN
            r.return_data.some =>
                LET data == r.return_data.val
                    line == SubItems(k)[1]
                IN /\ line.kind = "message"
                   /\ IF StartsWith(ToLower(data), ErrorSelector)
                      THEN \A t \in ErrorTexts :
                              ToLower(data) = ErrorSelector \o ErrorTail(t)
                                  => line.text = t
                      ELSE line.text = TestFailed

\* C8 as amended: the selector is looked for in the return data as given,
\* without lowercasing. Return data that starts with 08c379a0 is decoded as
\* Error(string) (its text printed, or the render panics on it); any other
\* return data, an upper-case spelling of the selector included, prints
\* "test failed" and never panics.
C8_SelectorAsGiven ==
    report_kind = "HuffTest" =>
        /\ \A k \in 1..(next - 1) :
              LET r == results[k] IN
              r.return_data.some =>
                  LET data == r.return_data.val
                      line == SubItems(k)[1]
                  IN /\ line.kind = "message"
                     /\ IF StartsWith(data, ErrorSelector)
                        THEN \A t \in ErrorTexts :
                                data = ErrorSelector \o ErrorTail(t)
                                    => line.text = t
                        ELSE line.text = TestFailed
        /\ (pc = "panicked" /\ next <= Len(results)
            /\ results[next].return_data.some /\ SubItems(next) = <<>>)
               => StartsWith(results[next].return_data.val, ErrorSelector)

C8_Witness ==
    /\ report_kind = "HuffTest"
    /\ next = 2
    /\ results[1].return_data = Some(RevertUpper)
    /\ SubItems(1)[1].kind = "message"
    /\ SubItems(1)[1].text = TestFailed

C10_TerminalConnectorLast ==
    Narrative =>
        \A k \in 1..NumHeaders :
            LET items == SubItems(k) IN
            items # <<>> =>
                {i \in DOMAIN items : items[i].conn = Corner} = {Len(items)}

====
